---------------------------- MODULE Spec2Model ----------------------------
(***************************************************************************)
(* Model of pdf_outline_extractor.py: the heading classifier, the title    *)
(* resolver, the outline pipeline of PDFOutlineExtractor.extract_outline   *)
(* and the batch loop of main.                                             *)
(*                                                                         *)
(* Text is a sequence of one-character strings.  Font sizes are the        *)
(* integer-valued floats of SizePool; on that domain the float products    *)
(* avg*1.1 and common*1.05 compare exactly as the rationals used here.     *)
(***************************************************************************)
EXTENDS Integers, Sequences, FiniteSets, TLC

VARIABLES
    pc,               \* position in the specification's run
    doc,              \* the opened fitz.Document: metadata and pages
    title,            \* extract_outline: title
    all_text_info,    \* extract_outline: all_text_info
    font_sizes,       \* extract_outline: font_sizes
    avg_font_size,    \* extract_outline: avg_font_size, a rational num/den
    common_font_size, \* extract_outline: common_font_size
    headings,         \* extract_outline: headings, levels assigned
    unique_headings,  \* extract_outline: unique_headings
    result,           \* value returned by extract_outline, or the raise
    cand,             \* arguments of one is_heading_candidate call
    verdict,          \* its return value
    files,            \* main: os.listdir(input_dir) with each file's content
    file_idx,         \* main: number of directory entries already iterated
    written,          \* main: output files written, output name -> result
    errors            \* main: filenames logged by the except branch

vars == <<pc, doc, title, all_text_info, font_sizes, avg_font_size,
          common_font_size, headings, unique_headings, result, cand, verdict,
          files, file_idx, written, errors>>

-----------------------------------------------------------------------------
(* Characters and the str methods the program uses *)

Digits == {"0","1","2","3","4","5","6","7","8","9"}
UpperSeq == <<"A","B","C","D","E","F","G","H","I","J","K","L","M","N","O","P","Q","R","S","T","U","V","W","X","Y","Z">>
LowerSeq == <<"a","b","c","d","e","f","g","h","i","j","k","l","m","n","o","p","q","r","s","t","u","v","w","x","y","z">>
UpperCase == {UpperSeq[i] : i \in 1..26}
LowerCase == {LowerSeq[i] : i \in 1..26}
Letters == UpperCase \cup LowerCase
Whitespace == {" ", "\t", "\n"}
Punctuation == {".", "-", "(", ")", "!", "?", ",", ";", ":", "_", "/"}
Chars == Letters \cup Digits \cup Whitespace \cup Punctuation

ToLowerChar(c) ==
    IF c \in UpperCase THEN LowerSeq[CHOOSE i \in 1..26 : UpperSeq[i] = c] ELSE c

\* str.lower()
Lower(t) == [i \in 1..Len(t) |-> ToLowerChar(t[i])]

\* str.strip()
Strip(t) ==
    LET keep == {i \in 1..Len(t) : t[i] \notin Whitespace}
    IN  IF keep = {} THEN <<>>
        ELSE LET a == CHOOSE i \in keep : \A j \in keep : i <= j
                 b == CHOOSE i \in keep : \A j \in keep : i >= j
             IN  SubSeq(t, a, b)

\* str.endswith(suffix)
EndsWith(t, s) ==
    /\ Len(s) <= Len(t)
    /\ SubSeq(t, Len(t) - Len(s) + 1, Len(t)) = s

\* `k in t` for strings
Contains(t, k) ==
    \E p \in 0..(Len(t) - Len(k)) : SubSeq(t, p + 1, p + Len(k)) = k

\* str.replace(old, new): every non-overlapping occurrence, left to right
RECURSIVE Replace(_, _, _)
Replace(t, old, new) ==
    IF Len(t) < Len(old) THEN t
    ELSE IF SubSeq(t, 1, Len(old)) = old
         THEN new \o Replace(SubSeq(t, Len(old) + 1, Len(t)), old, new)
         ELSE <<t[1]>> \o Replace(Tail(t), old, new)

-----------------------------------------------------------------------------
(* re.match: each operator maps the set S of positions a prefix of the     *)
(* pattern can end at to the positions the next pattern item can end at.   *)

One(C, S, t) == {p + 1 : p \in {q \in S : q < Len(t) /\ t[q + 1] \in C}}
Star(C, S, t) ==
    {q \in 0..Len(t) : \E p \in S : p <= q /\ \A i \in (p + 1)..q : t[i] \in C}
Plus(C, S, t) == Star(C, One(C, S, t), t)
Opt(C, S, t) == S \cup One(C, S, t)
\* a literal word under re.IGNORECASE (w is lower case)
Word(w, S, t) ==
    {p + Len(w) : p \in {q \in S : q + Len(w) <= Len(t)
                                   /\ Lower(SubSeq(t, q + 1, q + Len(w))) = w}}
\* `.` matches anything but a newline
Dot == Chars \ {"\n"}
\* `$` matches at the end and before a final newline
AtEnd(S, t) ==
    {p \in S : p = Len(t) \/ (p = Len(t) - 1 /\ t[Len(t)] = "\n")}

\* r'^(Chapter|Section|Part)\s+\d+[\.:]\s*(.+)'
MatchChapter(t) ==
    LET kw == Word(<<"c","h","a","p","t","e","r">>, {0}, t) \cup Word(<<"s","e","c","t","i","o","n">>, {0}, t)
                \cup Word(<<"p","a","r","t">>, {0}, t)
        num == Plus(Digits, Plus(Whitespace, kw, t), t)
        sep == One({".", ":"}, num, t)
    IN  One(Dot, Star(Whitespace, sep, t), t) # {}

\* r'^(\d+\.?\d*\.?\d*)\s+(.+)'
MatchNumbered(t) ==
    LET d1 == Plus(Digits, {0}, t)
        d2 == Star(Digits, Opt({"."}, d1, t), t)
        d3 == Star(Digits, Opt({"."}, d2, t), t)
    IN  One(Dot, Plus(Whitespace, d3, t), t) # {}

\* r'^([A-Z][A-Z\s]+)$' under re.IGNORECASE
MatchAllCaps(t) ==
    AtEnd(Plus(Letters \cup Whitespace, One(Letters, {0}, t), t), t) # {}

\* [A-Z][a-z]+ under re.IGNORECASE
TitleWord(S, t) == Plus(Letters, One(Letters, S, t), t)
RECURSIVE TitleWords(_, _, _)
TitleWords(S, t, n) ==
    LET S2 == S \cup TitleWord(Plus(Whitespace, S, t), t)
    IN  IF n = 0 \/ S2 = S THEN S ELSE TitleWords(S2, t, n - 1)

\* r'^([A-Z][a-z]+(?:\s+[A-Z][a-z]+)*)\s*$' under re.IGNORECASE
MatchTitleCase(t) ==
    AtEnd(Star(Whitespace, TitleWords(TitleWord({0}, t), t, Len(t)), t), t) # {}

\* self.heading_patterns, each tried with re.match(..., re.IGNORECASE)
MatchesHeadingPattern(t) ==
    MatchChapter(t) \/ MatchNumbered(t) \/ MatchAllCaps(t) \/ MatchTitleCase(t)

\* self.heading_keywords
heading_keywords ==
    { <<"i","n","t","r","o","d","u","c","t","i","o","n">>, <<"c","o","n","c","l","u","s","i","o","n">>, <<"a","b","s","t","r","a","c","t">>, <<"s","u","m","m","a","r","y">>, <<"o","v","e","r","v","i","e","w">>,
      <<"m","e","t","h","o","d","o","l","o","g","y">>, <<"r","e","s","u","l","t","s">>, <<"d","i","s","c","u","s","s","i","o","n">>, <<"b","a","c","k","g","r","o","u","n","d">>, <<"l","i","t","e","r","a","t","u","r","e">>,
      <<"r","e","f","e","r","e","n","c","e","s">>, <<"a","p","p","e","n","d","i","x">>, <<"a","c","k","n","o","w","l","e","d","g","m","e","n","t","s">>, <<"c","o","n","t","e","n","t","s">>, <<"i","n","d","e","x">> }

ContainsKeyword(t) == \E k \in heading_keywords : Contains(Lower(t), k)

\* r'^[\d\s\.\-\(\)]+$' (no flags)
MatchNumbersOnly(t) ==
    AtEnd(Plus(Digits \cup Whitespace \cup {".", "-", "(", ")"}, {0}, t), t) # {}

-----------------------------------------------------------------------------
(* Integer bit operations of Python's unbounded ints *)

RECURSIVE BitAnd(_, _)
BitAnd(a, b) ==
    IF a = 0 \/ b = 0 THEN 0
    ELSE IF a = -1 THEN b
    ELSE IF b = -1 THEN a
    ELSE (a % 2) * (b % 2) + 2 * BitAnd(a \div 2, b \div 2)

RECURSIVE BitOr(_, _)
BitOr(a, b) ==
    IF a = 0 THEN b
    ELSE IF b = 0 THEN a
    ELSE IF a = -1 \/ b = -1 THEN -1
    ELSE (IF a % 2 = 1 \/ b % 2 = 1 THEN 1 ELSE 0) + 2 * BitOr(a \div 2, b \div 2)

MinTextLen == 3
MaxTextLen == 200
BoldFlag == 16

\* font_size >= max(avg_font_size * 1.1, common_font_size * 1.05),
\* avg_font_size being the rational avg.num / avg.den
MeetsSizeThreshold(font_size, avg, common) ==
    /\ font_size * 10 * avg.den >= 11 * avg.num
    /\ font_size * 100 >= 105 * common

\* is_heading_candidate with the size rule tried before the reject filters
is_heading_candidate_size_first(text, font_size, font_flags, avg, common) ==
    LET text_clean == Strip(text)
    IN  IF MeetsSizeThreshold(font_size, avg, common) THEN TRUE
        ELSE IF Len(text_clean) < MinTextLen \/ Len(text_clean) > MaxTextLen THEN FALSE
        ELSE IF MatchNumbersOnly(text_clean) THEN FALSE
        ELSE IF \E c \in {".", "!", "?", ",", ";", ":"} : EndsWith(text_clean, <<c>>)
             THEN FALSE
        ELSE IF BitAnd(font_flags, BoldFlag) # 0 THEN TRUE
        ELSE IF MatchesHeadingPattern(text_clean) THEN TRUE
        ELSE IF ContainsKeyword(text_clean) THEN TRUE
        ELSE FALSE

\* PDFOutlineExtractor.is_heading_candidate
is_heading_candidate(text, font_size, font_flags, avg, common) ==
    LET text_clean == Strip(text)
    IN  IF Len(text_clean) < MinTextLen \/ Len(text_clean) > MaxTextLen THEN FALSE
        ELSE IF MatchNumbersOnly(text_clean) THEN FALSE
        ELSE IF \E c \in {".", "!", "?", ",", ";", ":"} : EndsWith(text_clean, <<c>>)
             THEN FALSE
        ELSE IF MeetsSizeThreshold(font_size, avg, common) THEN TRUE
        ELSE IF BitAnd(font_flags, BoldFlag) # 0 THEN TRUE
        ELSE IF MatchesHeadingPattern(text_clean) THEN TRUE
        ELSE IF ContainsKeyword(text_clean) THEN TRUE
        ELSE FALSE

-----------------------------------------------------------------------------
(* The document tree of fitz: doc.metadata, doc[page].get_text("dict") *)

PageCap == 50
DefaultFontSize == 12
TitleMinLen == 3
UntitledDocument == <<"U","n","t","i","t","l","e","d"," ","D","o","c","u","m","e","n","t">>
LevelNames == <<"H1", "H2", "H3">>

\* the elements of s at the indices in keep, in order
AtIndices(s, keep) ==
    [j \in 1..Cardinality(keep) |->
       s[CHOOSE i \in keep : Cardinality({k \in keep : k <= i}) = j]]

RECURSIVE Concat(_)
Concat(ss) == IF ss = <<>> THEN <<>> ELSE Head(ss) \o Concat(Tail(ss))

\* for block in blocks: if "lines" in block: for line in block["lines"]
BlockLines(block) == IF "lines" \in DOMAIN block THEN block.lines ELSE <<>>
PageLines(page) == Concat([b \in 1..Len(page) |-> BlockLines(page[b])])

\* a span without its "size" or "flags" key makes span[...] raise KeyError
SpanRaises(span) == ~ ({"text", "size", "flags"} \subseteq DOMAIN span)

Max(a, b) == IF a >= b THEN a ELSE b

\* the scan of the first page's spans: keeps the first span of largest size
RECURSIVE ScanLargest(_, _, _)
ScanLargest(spans, largest_text, largest_size) ==
    IF spans = <<>> THEN largest_text
    ELSE IF Head(spans).size > largest_size
         THEN ScanLargest(Tail(spans), Strip(Head(spans).text), Head(spans).size)
         ELSE ScanLargest(Tail(spans), largest_text, largest_size)

\* extract_title_from_document returning the largest text without its checks
extract_title_unchecked(d) ==
    IF "title" \in DOMAIN d.metadata /\ d.metadata.title # <<>>
    THEN [raised |-> FALSE, value |-> Strip(d.metadata.title)]
    ELSE IF Len(d.pages) > 0
    THEN LET lines == PageLines(d.pages[1])
             spans == Concat([l \in 1..Len(lines) |-> lines[l].spans])
         IN  IF \E s \in 1..Len(spans) : "size" \notin DOMAIN spans[s]
             THEN [raised |-> TRUE]
             ELSE [raised |-> FALSE, value |-> ScanLargest(spans, <<>>, 0)]
    ELSE [raised |-> FALSE, value |-> UntitledDocument]

\* PDFOutlineExtractor.extract_title_from_document
extract_title_from_document(d) ==
    IF "title" \in DOMAIN d.metadata /\ d.metadata.title # <<>>
    THEN [raised |-> FALSE, value |-> Strip(d.metadata.title)]
    ELSE IF Len(d.pages) > 0
    THEN LET lines == PageLines(d.pages[1])
             spans == Concat([l \in 1..Len(lines) |-> lines[l].spans])
             largest_text == ScanLargest(spans, <<>>, 0)
         IN  IF \E s \in 1..Len(spans) : "size" \notin DOMAIN spans[s]
             THEN [raised |-> TRUE]
             ELSE IF largest_text # <<>> /\ Len(largest_text) > TitleMinLen
             THEN [raised |-> FALSE, value |-> largest_text]
             ELSE [raised |-> FALSE, value |-> UntitledDocument]
    ELSE [raised |-> FALSE, value |-> UntitledDocument]

\* the loop over line["spans"]: text joined, size maximised, flags or-ed
RECURSIVE MergeSpans(_, _, _, _)
MergeSpans(spans, line_text, line_font_size, line_font_flags) ==
    IF spans = <<>>
    THEN [text |-> line_text, font_size |-> line_font_size,
          font_flags |-> line_font_flags]
    ELSE MergeSpans(Tail(spans), line_text \o Head(spans).text,
                    Max(line_font_size, Head(spans).size),
                    BitOr(line_font_flags, Head(spans).flags))

Min(a, b) == IF a <= b THEN a ELSE b

\* every line of the first PageCap pages, with its 1-based page number
DocLines(d) ==
    Concat([p \in 1..Min(Len(d.pages), PageCap) |->
              LET lines == PageLines(d.pages[p])
              IN  [l \in 1..Len(lines) |-> [spans |-> lines[l].spans, page |-> p]]])

\* the collection loop of extract_outline: all_text_info, or the KeyError
CollectText(d) ==
    LET lines == DocLines(d)
        merged == [l \in 1..Len(lines) |->
                     LET m == MergeSpans(lines[l].spans, <<>>, 0, 0)
                     IN  [text |-> Strip(m.text), font_size |-> m.font_size,
                          font_flags |-> m.font_flags, page |-> lines[l].page,
                          keep |-> Strip(m.text) # <<>>]]
        kept == AtIndices(merged, {l \in 1..Len(merged) : merged[l].keep})
    IN  IF \E l \in 1..Len(lines) : \E s \in 1..Len(lines[l].spans) :
                SpanRaises(lines[l].spans[s])
        THEN [raised |-> TRUE]
        ELSE [raised |-> FALSE,
              info |-> [i \in 1..Len(kept) |->
                          [text |-> kept[i].text, font_size |-> kept[i].font_size,
                           font_flags |-> kept[i].font_flags, page |-> kept[i].page]]]

FontSizesOf(info) == [i \in 1..Len(info) |-> info[i].font_size]

-----------------------------------------------------------------------------
(* Font statistics *)

RECURSIVE SumSeq(_)
SumSeq(s) == IF s = <<>> THEN 0 ELSE Head(s) + SumSeq(Tail(s))

\* sum(font_sizes) / len(font_sizes) if font_sizes else 12
AverageFontSize(sizes) ==
    IF sizes # <<>> THEN [num |-> SumSeq(sizes), den |-> Len(sizes)]
    ELSE [num |-> DefaultFontSize, den |-> 1]

\* list.count
Count(sizes, x) == Cardinality({i \in 1..Len(sizes) : sizes[i] = x})

(* set(font_sizes) as CPython builds it: an open-addressing table that     *)
(* starts with 8 slots; a float of integer value hashes to that integer.   *)
SetMinSize == 8
LinearProbes == 9
PerturbShift == 5
NoKey == -1

RECURSIVE ProbeSlot(_, _, _, _)
ProbeSlot(table, i, perturb, key) ==
    LET mask == Len(table) - 1
        probes == IF i + LinearProbes <= mask THEN LinearProbes ELSE 0
        hits == {j \in i..(i + probes) : table[j + 1] \in {NoKey, key}}
    IN  IF hits # {} THEN CHOOSE j \in hits : \A k \in hits : j <= k
        ELSE ProbeSlot(table, (i * 5 + 1 + (perturb \div (2 ^ PerturbShift))) % (mask + 1),
                       perturb \div (2 ^ PerturbShift), key)

RECURSIVE GrowSize(_, _)
GrowSize(newsize, minused) ==
    IF newsize <= minused THEN GrowSize(newsize * 2, minused) ELSE newsize

RECURSIVE Reinsert(_, _, _)
Reinsert(old, i, table) ==
    IF i > Len(old) THEN table
    ELSE IF old[i] = NoKey THEN Reinsert(old, i + 1, table)
    ELSE LET slot == ProbeSlot(table, old[i] % Len(table), old[i], old[i])
         IN  Reinsert(old, i + 1, [table EXCEPT ![slot + 1] = old[i]])

SetAdd(table, key) ==
    LET slot == ProbeSlot(table, key % Len(table), key, key)
        added == [table EXCEPT ![slot + 1] = key]
        fill == Cardinality({i \in 1..Len(added) : added[i] # NoKey})
    IN  IF table[slot + 1] = key THEN table
        ELSE IF fill * 5 < (Len(table) - 1) * 3 THEN added
        ELSE Reinsert(added, 1, [i \in 1..GrowSize(SetMinSize, fill * 4) |-> NoKey])

RECURSIVE SetTable(_, _)
SetTable(sizes, table) ==
    IF sizes = <<>> THEN table ELSE SetTable(Tail(sizes), SetAdd(table, Head(sizes)))

\* the order in which iterating set(sizes) yields its elements
SetIterationOrder(sizes) ==
    LET table == SetTable(sizes, [i \in 1..SetMinSize |-> NoKey])
    IN  AtIndices(table, {i \in 1..Len(table) : table[i] # NoKey})

\* max(iterable, key=...): the first element whose key is maximal
RECURSIVE MaxByCount(_, _, _)
MaxByCount(order, sizes, best) ==
    IF order = <<>> THEN best
    ELSE IF Count(sizes, Head(order)) > Count(sizes, best)
         THEN MaxByCount(Tail(order), sizes, Head(order))
         ELSE MaxByCount(Tail(order), sizes, best)

\* max(set(font_sizes), key=font_sizes.count) if font_sizes else 12
CommonFontSize(sizes) ==
    IF sizes # <<>>
    THEN LET order == SetIterationOrder(sizes)
         IN  MaxByCount(Tail(order), sizes, Head(order))
    ELSE DefaultFontSize

-----------------------------------------------------------------------------
(* Headings: classification, levels, order and duplicates *)

\* the loop that appends a Heading for every accepted line
ExtractHeadings(info, avg, common) ==
    LET Accepted(i) == is_heading_candidate(i.text, i.font_size, i.font_flags,
                                            avg, common)
        kept == AtIndices(info, {i \in 1..Len(info) : Accepted(info[i])})
    IN  [i \in 1..Len(kept) |->
           [level |-> "", text |-> kept[i].text, page |-> kept[i].page,
            font_size |-> kept[i].font_size, font_flags |-> kept[i].font_flags]]

\* sorted(set(font_sizes), reverse=True)
RECURSIVE SortedDescending(_)
SortedDescending(S) ==
    IF S = {} THEN <<>>
    ELSE LET m == CHOOSE x \in S : \A y \in S : x >= y
         IN  <<m>> \o SortedDescending(S \ {m})

\* determine_heading_level numbering the levels from 2
determine_heading_level_from_h2(heading, all_headings) ==
    LET unique_sizes == SortedDescending({all_headings[i].font_size :
                                            i \in 1..Len(all_headings)})
        top == SubSeq(unique_sizes, 1, Min(3, Len(unique_sizes)))
        ranks == {i \in 1..Len(top) : top[i] = heading.font_size}
    IN  IF ranks # {} THEN <<"H2", "H3", "H4">>[CHOOSE i \in ranks : TRUE] ELSE "H3"

\* determine_heading_level with "H1" as the level of an unmapped size
determine_heading_level_default_h1(heading, all_headings) ==
    LET unique_sizes == SortedDescending({all_headings[i].font_size :
                                            i \in 1..Len(all_headings)})
        top == SubSeq(unique_sizes, 1, Min(3, Len(unique_sizes)))
        ranks == {i \in 1..Len(top) : top[i] = heading.font_size}
    IN  IF ranks # {} THEN LevelNames[CHOOSE i \in ranks : TRUE] ELSE "H1"

\* PDFOutlineExtractor.determine_heading_level
determine_heading_level(heading, all_headings) ==
    LET unique_sizes == SortedDescending({all_headings[i].font_size :
                                            i \in 1..Len(all_headings)})
        top == SubSeq(unique_sizes, 1, Min(3, Len(unique_sizes)))
        ranks == {i \in 1..Len(top) : top[i] = heading.font_size}
    IN  IF ranks # {} THEN LevelNames[CHOOSE i \in ranks : TRUE] ELSE "H3"

\* for heading in headings: heading.level = determine_heading_level(...)
AssignLevels(hs) ==
    [i \in 1..Len(hs) |-> [hs[i] EXCEPT !.level = determine_heading_level(hs[i], hs)]]

\* a sort key of the page alone
KeyLessByPage(a, b) == a.page < b.page

\* key=lambda h: (h.page, h.font_size), compared as tuples
KeyLess(a, b) ==
    a.page < b.page \/ (a.page = b.page /\ a.font_size < b.font_size)

\* sorted(): stable, an element goes after every element not greater than it
RECURSIVE InsertSorted(_, _)
InsertSorted(sorted, h) ==
    IF sorted = <<>> THEN <<h>>
    ELSE IF KeyLess(h, Head(sorted)) THEN <<h>> \o sorted
    ELSE <<Head(sorted)>> \o InsertSorted(Tail(sorted), h)

RECURSIVE SortHeadings(_, _)
SortHeadings(hs, sorted) ==
    IF hs = <<>> THEN sorted
    ELSE SortHeadings(Tail(hs), InsertSorted(sorted, Head(hs)))

\* the pass with `seen` never extended
RECURSIVE RemoveDuplicatesForgetful(_, _, _)
RemoveDuplicatesForgetful(hs, seen, unique) ==
    IF hs = <<>> THEN unique
    ELSE IF Head(hs).text \notin seen
         THEN RemoveDuplicatesForgetful(Tail(hs), seen, Append(unique, Head(hs)))
         ELSE RemoveDuplicatesForgetful(Tail(hs), seen, unique)

\* the pass that keeps a heading unless its text is in `seen`
RECURSIVE RemoveDuplicates(_, _, _)
RemoveDuplicates(hs, seen, unique) ==
    IF hs = <<>> THEN unique
    ELSE IF Head(hs).text \notin seen
         THEN RemoveDuplicates(Tail(hs), seen \cup {Head(hs).text},
                               Append(unique, Head(hs)))
         ELSE RemoveDuplicates(Tail(hs), seen, unique)

UniqueHeadings(hs) == RemoveDuplicates(SortHeadings(hs, <<>>), {}, <<>>)

\* the conversion of unique_headings to the returned outline
OutlineOf(unique) ==
    [i \in 1..Len(unique) |->
       [level |-> unique[i].level, text |-> unique[i].text, page |-> unique[i].page]]

\* PDFOutlineExtractor.extract_outline as one call: its return value or raise
extract_outline(d) ==
    LET t == extract_title_from_document(d)
        c == CollectText(d)
        sizes == FontSizesOf(c.info)
        hs == AssignLevels(ExtractHeadings(c.info, AverageFontSize(sizes),
                                           CommonFontSize(sizes)))
    IN  IF t.raised \/ c.raised THEN [raised |-> TRUE]
        ELSE [raised |-> FALSE, title |-> t.value,
              outline |-> OutlineOf(UniqueHeadings(hs))]

-----------------------------------------------------------------------------
(* Inputs *)

MaxLines == 3        \* text lines of a document of the outline runs
MaxLevelLines == 4   \* text lines of a document of the level runs
MaxPages == 2        \* pages of a document
MaxTitleSpans == 2   \* spans on the first page of a title document
MaxFiles == 3        \* entries of the input directory

NoMetadata == [format |-> <<"P","D","F">>]
ImageBlock == [type |-> 1]

IntroText == <<"I","n","t","r","o">>
BodyText == <<"x","1"," ","y","2"," ","z","3">>

\* the lines a document of the outline runs is made of, each a list of spans
LinePool ==
    { <<[text |-> IntroText, size |-> 20, flags |-> 0]>>,
      <<[text |-> IntroText, size |-> 16, flags |-> 0]>>,
      <<[text |-> BodyText, size |-> 12, flags |-> 0]>>,
      <<[text |-> BodyText, size |-> 10, flags |-> 16]>>,
      <<[text |-> <<" "," ">>, size |-> 12, flags |-> 0]>>,
      <<[text |-> <<" ","I","n">>, size |-> 12, flags |-> 4],
        [text |-> <<"d","e","x"," ">>, size |-> 20, flags |-> 16]>>,
      <<[text |-> BodyText, flags |-> 0]>>,
      <<[text |-> BodyText, size |-> -5, flags |-> -1]>> }

\* a document of np pages holding the lines ls, line i on page pg[i]
MakeDoc(meta, ls, pg, np) ==
    [metadata |-> meta,
     pages |-> [p \in 1..np |->
                  LET idx == {i \in 1..Len(ls) : pg[i] = p}
                      on_page == AtIndices(ls, idx)
                  IN  IF idx = {} THEN <<ImageBlock>>
                      ELSE <<ImageBlock,
                             [lines |-> [j \in 1..Len(on_page) |->
                                           [spans |-> on_page[j]]]]>>]]

NonDecreasing(pg) == \A i, j \in DOMAIN pg : i <= j => pg[i] <= pg[j]

\* d is a document of at most MaxPages pages and MaxLines lines of LinePool
IsOutlineDoc(d) ==
    \E np \in 0..MaxPages, n \in 0..MaxLines :
        \E ls \in [1..n -> LinePool], pg \in [1..n -> 1..np] :
            NonDecreasing(pg) /\ d = MakeDoc(NoMetadata, ls, pg, np)

\* the lines a document of the level runs is made of: every one a heading
\* candidate by its pattern, in five font sizes
LevelLinePool ==
    { <<[text |-> t, size |-> z, flags |-> 0]>> :
        t \in {IntroText, <<"I","n","d","e","x">>}, z \in {10, 12, 16, 20, 24} }

\* d is a one-page document of at most MaxLevelLines lines of LevelLinePool
IsLevelDoc(d) ==
    \E n \in 0..MaxLevelLines :
        \E ls \in [1..n -> LevelLinePool] :
            d = MakeDoc(NoMetadata, ls, [i \in 1..n |-> 1], 1)

TitleMetadataPool ==
    { NoMetadata, [title |-> <<>>], [title |-> <<" ","R","e","p","o","r","t"," ">>], [title |-> <<" ","\t"," "," "," "," "," "," "," ">>] }

TitleSpanPool ==
    [text : {<<"B","i","g"," ","T","i","t","l","e">>, <<" ","A","b","c"," ">>, <<" "," "," ">>, <<"N","o","t","e">>}, size : {8, 12, 20}, flags : {0}]

\* d is a document with any metadata and at most MaxTitleSpans spans, one a
\* line, all on its first page
IsTitleDoc(d) ==
    \E n \in 0..MaxTitleSpans, np \in {0, 1}, meta \in TitleMetadataPool :
        \E spans \in [1..n -> TitleSpanPool] :
            /\ n > 0 => np = 1
            /\ d = MakeDoc(meta, [i \in 1..n |-> <<spans[i]>>], [i \in 1..n |-> 1], np)

ClassifyTexts ==
    { <<"I","n","t","r","o">>, <<"x","1"," ","y","2"," ","z","3">>, <<"a","b">>, <<" ","a","b"," ">>, <<"s","e","e"," ","f","i","g","."," ","3",".">>, <<"(","1","2",".","5",")"," ","-"," ","3">>,
      <<"1"," ","B","a","c","k","g","r","o","u","n","d"," ","i","n","f","o">>, <<"m","y","-","r","e","s","u","l","t","s","_","2">>, <<"C","h","a","p","t","e","r"," ","1",":"," ","G","o">>, <<"W","h","a","t"," ","n","o","w","?">>,
      <<"A","B"," ","C","D">>, <<"x","1",","," ","y","2",";">>, [i \in 1..200 |-> "A"], [i \in 1..201 |-> "A"] }

ClassifyInputs ==
    [text : ClassifyTexts, font_size : {0, 12, 13, 14, 20}, font_flags : {0, 4, 16, 20},
     avg : {[num |-> 12, den |-> 1], [num |-> 25, den |-> 2]}, common : {10, 12}]

GoodDoc ==
    MakeDoc([title |-> <<"R","e","p","o","r","t">>],
            <<<<[text |-> IntroText, size |-> 20, flags |-> 0]>>>>, <<1>>, 1)
EmptyDoc == MakeDoc(NoMetadata, <<>>, <<>>, 0)
BadDoc == MakeDoc(NoMetadata, <<<<[text |-> BodyText, flags |-> 0]>>>>, <<1>>, 1)

\* what a directory entry holds: whether fitz.open succeeds, the document it
\* yields, and whether the output file can be written
FileContents ==
    { [opens |-> FALSE, doc |-> EmptyDoc, writable |-> TRUE],
      [opens |-> TRUE, doc |-> GoodDoc, writable |-> TRUE],
      [opens |-> TRUE, doc |-> EmptyDoc, writable |-> TRUE],
      [opens |-> TRUE, doc |-> BadDoc, writable |-> TRUE],
      [opens |-> TRUE, doc |-> GoodDoc, writable |-> FALSE] }

FileNames == { <<"a",".","p","d","f">>, <<"B",".","P","D","F">>, <<"c",".","t","x","t">>, <<"d",".","p","d","f">> }

\* os.listdir: distinct names in any order
IsDirectory(fs) ==
    \E n \in 0..MaxFiles :
        \E names \in [1..n -> FileNames], contents \in [1..n -> FileContents] :
            /\ \A i, j \in 1..n : i # j => names[i] # names[j]
            /\ fs = [i \in 1..n |-> [name |-> names[i], opens |-> contents[i].opens,
                                     doc |-> contents[i].doc,
                                     writable |-> contents[i].writable]]

-----------------------------------------------------------------------------
(* State machine *)

NoResult == [raised |-> FALSE]
NoAverage == [num |-> 0, den |-> 1]
NoCandidate ==
    [text |-> <<>>, font_size |-> 0, font_flags |-> 0, avg |-> NoAverage, common |-> 0]

PipelineIdle ==
    /\ title = <<>>
    /\ all_text_info = <<>>
    /\ font_sizes = <<>>
    /\ avg_font_size = NoAverage
    /\ common_font_size = 0
    /\ headings = <<>>
    /\ unique_headings = <<>>
    /\ result = NoResult

ClassifierIdle == cand = NoCandidate /\ verdict = FALSE

BatchIdle == files = <<>> /\ file_idx = 0 /\ written = {} /\ errors = <<>>

pipeline_vars == <<doc, title, all_text_info, font_sizes, avg_font_size,
                   common_font_size, headings, unique_headings, result>>
classifier_vars == <<cand, verdict>>
batch_vars == <<files, file_idx, written, errors>>

\* extract_outline is entered with a document of the outline runs
Init ==
    /\ pc = "title"
    /\ IsOutlineDoc(doc)
    /\ PipelineIdle /\ ClassifierIdle /\ BatchIdle

\* extract_outline is entered with a document of the title runs
InitTitle ==
    /\ pc = "title"
    /\ IsTitleDoc(doc)
    /\ PipelineIdle /\ ClassifierIdle /\ BatchIdle

\* extract_outline is entered with a document of the level runs
InitLevels ==
    /\ pc = "title"
    /\ IsLevelDoc(doc)
    /\ PipelineIdle /\ ClassifierIdle /\ BatchIdle

\* title = self.extract_title_from_document(doc)
ResolveTitle ==
    /\ pc = "title"
    /\ LET t == extract_title_from_document(doc)
       IN  IF t.raised
           THEN /\ pc' = "raised"
                /\ result' = [raised |-> TRUE]
                /\ title' = title
           ELSE /\ pc' = "collect"
                /\ title' = t.value
                /\ result' = result
    /\ UNCHANGED <<doc, all_text_info, font_sizes, avg_font_size, common_font_size,
                   headings, unique_headings, classifier_vars, batch_vars>>

\* the loop over pages, blocks, lines and spans
CollectLines ==
    /\ pc = "collect"
    /\ LET c == CollectText(doc)
       IN  IF c.raised
           THEN /\ pc' = "raised"
                /\ result' = [raised |-> TRUE]
                /\ UNCHANGED <<all_text_info, font_sizes>>
           ELSE /\ pc' = "stats"
                /\ all_text_info' = c.info
                /\ font_sizes' = FontSizesOf(c.info)
                /\ result' = result
    /\ UNCHANGED <<doc, title, avg_font_size, common_font_size, headings,
                   unique_headings, classifier_vars, batch_vars>>

\* avg_font_size = ...; common_font_size = ...
ComputeFontStatistics ==
    /\ pc = "stats"
    /\ pc' = "headings"
    /\ avg_font_size' = AverageFontSize(font_sizes)
    /\ common_font_size' = CommonFontSize(font_sizes)
    /\ UNCHANGED <<doc, title, all_text_info, font_sizes, headings, unique_headings,
                   result, classifier_vars, batch_vars>>

\* the candidate loop and the level loop
ClassifyAndLevel ==
    /\ pc = "headings"
    /\ pc' = "resolve"
    /\ headings' = AssignLevels(ExtractHeadings(all_text_info, avg_font_size,
                                                common_font_size))
    /\ UNCHANGED <<doc, title, all_text_info, font_sizes, avg_font_size,
                   common_font_size, unique_headings, result, classifier_vars,
                   batch_vars>>

\* sort, duplicate removal, conversion and return
ResolveOutline ==
    /\ pc = "resolve"
    /\ pc' = "done"
    /\ unique_headings' = UniqueHeadings(headings)
    /\ result' = [raised |-> FALSE, title |-> title,
                  outline |-> OutlineOf(UniqueHeadings(headings))]
    /\ UNCHANGED <<doc, title, all_text_info, font_sizes, avg_font_size,
                   common_font_size, headings, classifier_vars, batch_vars>>

Next ==
    \/ ResolveTitle
    \/ CollectLines
    \/ ComputeFontStatistics
    \/ ClassifyAndLevel
    \/ ResolveOutline

Spec == Init /\ [][Next]_vars
SpecTitle == InitTitle /\ [][Next]_vars
SpecLevels == InitLevels /\ [][Next]_vars

\* one call of is_heading_candidate on arbitrary arguments
InitClassify ==
    /\ pc = "classify"
    /\ cand \in ClassifyInputs
    /\ verdict = FALSE
    /\ doc = EmptyDoc
    /\ PipelineIdle /\ BatchIdle

Classify ==
    /\ pc = "classify"
    /\ pc' = "classified"
    /\ verdict' = is_heading_candidate(cand.text, cand.font_size, cand.font_flags,
                                       cand.avg, cand.common)
    /\ UNCHANGED <<cand, pipeline_vars, batch_vars>>

NextClassify == Classify

SpecClassify == InitClassify /\ [][NextClassify]_vars

\* filename.lower().endswith('.pdf')
IsPdfName(name) == EndsWith(Lower(name), <<".","p","d","f">>)

\* filename.replace('.pdf', '.json')
OutputName(name) == Replace(name, <<".","p","d","f">>, <<".","j","s","o","n">>)

\* main has listed the input directory
InitBatch ==
    /\ pc = "main"
    /\ IsDirectory(files)
    /\ file_idx = 0 /\ written = {} /\ errors = <<>>
    /\ doc = EmptyDoc
    /\ PipelineIdle /\ ClassifierIdle

\* the iteration without its try/except: an exception leaves main
ProcessFileUncaught ==
    /\ pc = "main"
    /\ file_idx < Len(files)
    /\ file_idx' = file_idx + 1
    /\ LET f == files[file_idx + 1]
           r == extract_outline(f.doc)
       IN  IF ~IsPdfName(f.name)
           THEN UNCHANGED <<pc, written, errors>>
           ELSE IF ~f.opens \/ r.raised \/ ~f.writable
           THEN /\ pc' = "crashed"
                /\ UNCHANGED <<written, errors>>
           ELSE /\ written' = written \cup {[name |-> OutputName(f.name), content |-> r]}
                /\ UNCHANGED <<pc, errors>>
    /\ UNCHANGED <<files, pipeline_vars, classifier_vars>>

\* one iteration of `for filename in os.listdir(input_dir)`
ProcessFile ==
    /\ pc = "main"
    /\ file_idx < Len(files)
    /\ file_idx' = file_idx + 1
    /\ LET f == files[file_idx + 1]
           r == extract_outline(f.doc)
       IN  IF ~IsPdfName(f.name)
           THEN UNCHANGED <<written, errors>>
           ELSE IF ~f.opens \/ r.raised \/ ~f.writable
           THEN /\ errors' = Append(errors, f.name)
                /\ written' = written
           ELSE /\ written' = written \cup {[name |-> OutputName(f.name), content |-> r]}
                /\ errors' = errors
    /\ UNCHANGED <<pc, files, pipeline_vars, classifier_vars>>

\* the directory listing is exhausted: main returns
FinishBatch ==
    /\ pc = "main"
    /\ file_idx = Len(files)
    /\ pc' = "exit"
    /\ UNCHANGED <<files, file_idx, written, errors, pipeline_vars, classifier_vars>>

NextBatch == ProcessFile \/ FinishBatch

\* the control flow of the loop: the next iteration begins or the loop is left
LoopAdvances ==
    /\ pc = "main"
    /\ IF file_idx < Len(files)
       THEN file_idx' = file_idx + 1 /\ pc' = pc
       ELSE file_idx' = file_idx /\ pc' = "exit"

\* main keeps running: while the loop can advance it eventually does
SpecBatch == InitBatch /\ [][NextBatch]_vars /\ WF_<<pc, file_idx>>(LoopAdvances)

-----------------------------------------------------------------------------
(* Properties *)

\* C1: the outline returned by extract_outline holds no two entries with the
\* same text, however many candidate lines share a text and whatever their
\* pages and font sizes.
C1_UniqueText ==
    pc = "done" =>
        \A i, j \in 1..Len(result.outline) :
            i # j => result.outline[i].text # result.outline[j].text

\* C1 witness: returned while two candidates share a text on different pages
\* with different font sizes.
C1_Witness ==
    /\ pc = "done"
    /\ \E i, j \in 1..Len(headings) :
          /\ headings[i].text = headings[j].text
          /\ headings[i].page # headings[j].page
          /\ headings[i].font_size # headings[j].font_size

\* C2: the entries are in the order of a stable sort of the candidates by
\* (page, font_size) ascending, and of the candidates sharing a text the one
\* kept is the first of them in that sorted order.
C2_SortedKeepFirst ==
    pc = "done" =>
        LET h == headings
            u == unique_headings
            Before(a, b) ==
                \/ h[a].page < h[b].page
                \/ h[a].page = h[b].page /\ h[a].font_size < h[b].font_size
                \/ h[a].page = h[b].page /\ h[a].font_size = h[b].font_size /\ a < b
            Same(t) == {m \in 1..Len(h) : h[m].text = t}
            First(t) == CHOOSE m \in Same(t) : \A n \in Same(t) \ {m} : Before(m, n)
        IN  /\ {u[k].text : k \in 1..Len(u)} = {h[m].text : m \in 1..Len(h)}
            /\ \A k \in 1..Len(u) : u[k] = h[First(u[k].text)]
            /\ \A k, l \in 1..Len(u) :
                  k < l => Before(First(u[k].text), First(u[l].text))
            /\ Len(result.outline) = Len(u)
            /\ \A k \in 1..Len(u) :
                  result.outline[k] = [level |-> u[k].level, text |-> u[k].text,
                                       page |-> u[k].page]

\* C2 witness: of two candidates with one text on one page the later collected
\* has the smaller font size, and it is the one in the outline.
C2_Witness ==
    /\ pc = "done"
    /\ \E a, b \in 1..Len(headings) :
          /\ a < b
          /\ headings[a].text = headings[b].text
          /\ headings[a].page = headings[b].page
          /\ headings[b].font_size < headings[a].font_size
          /\ \E k \in 1..Len(unique_headings) : unique_headings[k] = headings[b]

\* C3: with the distinct font sizes of the candidates ranked from the largest,
\* a candidate of the largest size is H1, of the second H2, of the third or any
\* smaller size H3; so every level is H1, H2 or H3 and a larger font size never
\* has a deeper level than a smaller one.
C3_LevelBySizeRank ==
    pc \in {"resolve", "done"} =>
        LET sizes == {headings[i].font_size : i \in 1..Len(headings)}
            Larger(s) == Cardinality({x \in sizes : x > s})
            Depth(l) == CHOOSE d \in 1..3 : LevelNames[d] = l
        IN  /\ \A i \in 1..Len(headings) :
                  headings[i].level =
                      IF Larger(headings[i].font_size) = 0 THEN "H1"
                      ELSE IF Larger(headings[i].font_size) = 1 THEN "H2"
                      ELSE "H3"
            /\ \A i, j \in 1..Len(headings) :
                  headings[i].font_size > headings[j].font_size
                      => Depth(headings[i].level) <= Depth(headings[j].level)
            /\ pc = "done" =>
                  \A k \in 1..Len(result.outline) :
                      result.outline[k].level \in {"H1", "H2", "H3"}

\* C3 witness: the candidates have four distinct font sizes and the one of the
\* smallest size reaches the outline as H3.
C3_Witness ==
    /\ pc = "done"
    /\ Cardinality({headings[i].font_size : i \in 1..Len(headings)}) >= 4
    /\ \E k \in 1..Len(unique_headings) :
          /\ \A i \in 1..Len(headings) :
                unique_headings[k].font_size <= headings[i].font_size
          /\ result.outline[k].level = "H3"

\* C4: is_heading_candidate rejects a line whose trimmed text is shorter than 3
\* or longer than 200 characters, is made of digits, whitespace, ".", "-", "("
\* and ")" only, or ends in one of . ! ? , ; : whatever its font size and bold
\* flag; any other line is accepted exactly when the size rule, the bold bit, a
\* pattern or a keyword accepts it.
C4_RejectBeforeAccept ==
    pc = "classified" =>
        LET t == Strip(cand.text)
            rejected ==
                \/ Len(t) < 3
                \/ Len(t) > 200
                \/ \A i \in 1..Len(t) :
                      t[i] \in Digits \cup Whitespace \cup {".", "-", "(", ")"}
                \/ t[Len(t)] \in {".", "!", "?", ",", ";", ":"}
            bold == (cand.font_flags \div 16) % 2 = 1
            large ==
                /\ cand.font_size * 10 * cand.avg.den >= 11 * cand.avg.num
                /\ cand.font_size * 100 >= 105 * cand.common
        IN  verdict = (~rejected /\ (large \/ bold \/ MatchesHeadingPattern(t)
                                       \/ ContainsKeyword(t)))

\* C4 witness: a line ending in "." is rejected although it is bold and its
\* font size meets the size rule.
C4_Witness ==
    /\ pc = "classified"
    /\ cand.text = <<"s","e","e"," ","f","i","g","."," ","3",".">>
    /\ cand.font_size = 20
    /\ cand.font_flags = 16
    /\ verdict = FALSE

\* C5: the common font size is the mode of the collected font sizes, the size
\* occurring first in collection order winning a tie of frequencies; with no
\* line collected the common and the average size are both 12.
C5_ModeFirstEncountered ==
    pc \in {"headings", "resolve", "done"} =>
        LET Freq(x) == Cardinality({i \in 1..Len(font_sizes) : font_sizes[i] = x})
            modes == {i \in 1..Len(font_sizes) :
                        \A j \in 1..Len(font_sizes) :
                            Freq(font_sizes[i]) >= Freq(font_sizes[j])}
        IN  IF Len(font_sizes) = 0
            THEN common_font_size = 12 /\ avg_font_size.num = 12 * avg_font_size.den
            ELSE common_font_size =
                     font_sizes[CHOOSE i \in modes : \A j \in modes : i <= j]

\* C6: a metadata title that is not blank is returned trimmed; otherwise the
\* first span of largest size on the first page gives the title if its trimmed
\* text is longer than 3 characters; otherwise the title is "Untitled
\* Document"; the title is never empty or blank.
C6_TitleResolution ==
    pc \in {"collect", "stats", "headings", "resolve", "done"} =>
        LET meta == doc.metadata
            has_title == "title" \in DOMAIN meta /\ Strip(meta.title) # <<>>
            lines == IF Len(doc.pages) > 0 THEN PageLines(doc.pages[1]) ELSE <<>>
            spans == Concat([l \in 1..Len(lines) |-> lines[l].spans])
            largest == CHOOSE i \in 1..Len(spans) :
                          /\ \A j \in 1..Len(spans) : spans[j].size <= spans[i].size
                          /\ \A j \in 1..(i - 1) : spans[j].size < spans[i].size
        IN  /\ title = IF has_title THEN Strip(meta.title)
                       ELSE IF Len(spans) > 0 /\ Len(Strip(spans[largest].text)) > 3
                       THEN Strip(spans[largest].text)
                       ELSE UntitledDocument
            /\ Strip(title) # <<>>

C8_BatchIsolation ==
    <>(/\ pc = "exit"
       /\ file_idx = Len(files)
       /\ \A i \in 1..Len(files) :
             LET f == files[i]
                 lower == [k \in 1..Len(f.name) |-> ToLowerChar(f.name[k])]
                 is_pdf == Len(lower) >= 4
                           /\ SubSeq(lower, Len(lower) - 3, Len(lower)) = <<".","p","d","f">>
                 fails == ~f.opens \/ extract_outline(f.doc).raised \/ ~f.writable
             IN  is_pdf =>
                     IF fails
                     THEN \E e \in 1..Len(errors) : errors[e] = f.name
                     ELSE \E w \in written : w.content = extract_outline(f.doc)
                                             /\ w.name = OutputName(f.name))

\* C8 witness: main has ended with a failed PDF logged before a later PDF of
\* the directory was written.
C8_Witness ==
    /\ pc = "exit"
    /\ \E i, j \in 1..Len(files) :
          /\ i < j
          /\ \E e \in 1..Len(errors) : errors[e] = files[i].name
          /\ \E w \in written : w.name = OutputName(files[j].name)

\* C9: collecting never raises: a span whose size or flags is absent or not
\* positive counts as size 0 and flags 0, so every document gets an outline
\* and no line's flags are negative.
C9_MalformedNeverRaises ==
    /\ pc # "raised"
    /\ \A i \in 1..Len(all_text_info) : all_text_info[i].font_flags >= 0

\* C10: a returned outline that is not empty has an H1 entry, and has an H2
\* entry only if it has an H1 entry.
C10_OutlineLevelPrefix ==
    pc = "done" =>
        LET levels == {result.outline[k].level : k \in 1..Len(result.outline)}
        IN  /\ levels # {} => "H1" \in levels
            /\ "H2" \in levels => "H1" \in levels

\* C10 as amended: the levels given to the heading candidates, before
\* duplicates are removed, are a prefix of H1, H2, H3, and the outline's levels
\* are among them; the outline itself may lack H1.
C10_CandidateLevelPrefix ==
    pc \in {"resolve", "done"} =>
        LET levels == {headings[i].level : i \in 1..Len(headings)}
        IN  /\ levels \subseteq {"H1", "H2", "H3"}
            /\ levels # {} => "H1" \in levels
            /\ "H3" \in levels => "H2" \in levels
            /\ pc = "done" =>
                  {result.outline[k].level : k \in 1..Len(result.outline)}
                      \subseteq levels

\* C10 witness: an outline is returned whose only entry is H2, the H1 candidate
\* of the same text having been dropped as the duplicate.
C10_Witness ==
    /\ pc = "done"
    /\ Len(result.outline) = 1
    /\ result.outline[1].level = "H2"
    /\ \E i \in 1..Len(headings) :
          headings[i].level = "H1" /\ headings[i].text = result.outline[1].text

=============================================================================
